---------------------------- MODULE Spec2Model ----------------------------
(***************************************************************************)
(* One reservation round of the ShamrockSeats bot: start_reservation       *)
(* (src/bot/bot.py) probes the ticket quota, removes the seats the caller  *)
(* keeps, cuts the remaining seats into quota-sized batches, starts one    *)
(* retry_async-wrapped open_driver_and_reserve task per batch and awaits   *)
(* asyncio.gather over them.                                               *)
(*                                                                         *)
(* Seats are numbers (seat ids such as "01A", numbered in the order of     *)
(* their names), proxies 1..MaxProxies ("host:port" strings).              *)
(*                                                                         *)
(* Around the round: the proxy pool of src/bot/proxy.py (refresh and get   *)
(* on the class-level store), the handlers of the chat's conversation      *)
(* that lead to start_reservation, and retry_async, reserve_seats and the  *)
(* quota probe of src/ryanair.py each run alone on bounded inputs.         *)
(***************************************************************************)
EXTENDS Integers, Sequences, FiniteSets, TLC

\* ---------------------------------------------------------------- bounds
\* seats on the seat map of a round that is run to its end
MaxSeats == 3
\* seats on the seat map when only the batching is run
MaxSeatMap == 4
\* addresses in the provider's proxy listing
MaxProxies == 2
\* addresses the provider can list while the pool is in use
MaxAddresses == 3
\* readings of the clock (one per selection of get())
MaxTime == 2
\* seats the seat lookup of a conversation finds available
MaxSeatsShown == 2
\* runs of start_reservation in one run of the bot
MaxRounds == 2
\* the max_attempts, initial_delay and backoff_factor retry_async is given
MaxAttemptsArg == 4
MaxDelay == 2
MaxFactor == 3
\* the max_rows divide_seats_evenly is given
MaxRowsArg == 3

\* ------------------------------------------------------ program constants
\* retry_async(..., max_attempts=3, initial_delay=1, backoff_factor=1)
max_attempts == 3
\* Ryanair.__init__: self.__num_passengers = 7
NumPassengers == 7

Proxies == 1..MaxProxies

\* The exception classes the retry decorator of open_driver_and_reserve lists.
RetryExceptions ==
    {"FlightNotFoundError", "FlightSoldOutError", "SeatsNotAvailableError",
     "SeatSelectionError", "RyanairScriptError"}

\* What one call of Ryanair.reserve_seats ends with: it returns, raises one of
\* its own errors, or lets a Selenium exception through (__is_select_baggage_page
\* and __complete_baggage_page wait without a try).
ReserveOutcomes ==
    {"ok", "FlightNotFoundError", "FlightSoldOutError", "SeatSelectionError",
     "RyanairScriptError", "TimeoutException"}

\* The exception classes the two except clauses around the quota probe name.
ProbeHandled ==
    {"FlightNotFoundError", "FlightSoldOutError", "SeatsNotAvailableError",
     "RyanairScriptError"}

\* Faults of the probe's browser session: none, one of the handled classes, or
\* a Selenium exception no clause names.
ProbeFaults == {"none"} \cup (ProbeHandled \ {"SeatsNotAvailableError"})
                 \cup {"WebDriverException"}

VARIABLES
    available_seats,    \* context.user_data["available_seats"], a list
    seats_to_reserve,   \* the seats the caller picked (kept out of the batches)
    pc,                 \* where start_reservation is
    probe_driver,       \* the probe's WebDriver: "none", "open" or "quit"
    probe_calls,        \* calls of get_number_of_tickets_available
    probe_error,        \* the exception the probe raised ("none": none yet)
    available_tickets,  \* the quota the probe returned (0 before it)
    auth_requests,      \* requests Proxy.__init__ sent to the provider's API
    list_requests,      \* requests for the provider's proxy listing
    tasks,              \* the batches: one open_driver_and_reserve task each
    message,            \* what the loading message was edited to
    raised,             \* the exception that left start_reservation
    proxy_inits,        \* Proxy objects made since the process started
    proxy_store,        \* Proxy.__proxies: the entries in insertion order
    reachable,          \* the addresses Ryanair answers through at the moment
    now,                \* the last reading of time.time() (0: none yet)
    call,               \* per caller: the Proxy call it is in, or made last
    snapshot,           \* the listing the last refresh that succeeded fetched
    handed_out,         \* the tracked addresses get() returned since they were added
    last_got,           \* what the latest get() that returned gave (0: None)
    last_got_kept,      \* last_got has been tracked without a break since
    conv_state,         \* the state the ConversationHandler keeps for the chat
    user_data,          \* context.user_data: the keys it holds and their values
    input,              \* the arguments of the call of a function run alone
    output              \* that call: how far it is, what it returned or raised

roundVars == <<available_seats, seats_to_reserve, pc, probe_driver, probe_calls,
               probe_error, available_tickets, auth_requests, list_requests,
               tasks, message, raised, proxy_inits>>

poolVars == <<proxy_store, reachable, now, call, snapshot, handed_out,
              last_got, last_got_kept>>

convVars == <<conv_state, user_data>>

callVars == <<input, output>>

vars == <<roundVars, poolVars, convVars, callVars>>

\* ------------------------------------------------------------ list helpers
Range(s) == {s[i] : i \in DOMAIN s}

IsInjective(s) == \A i, j \in DOMAIN s : s[i] = s[j] => i = j

Front(s) == SubSeq(s, 1, Len(s) - 1)

Last(s) == s[Len(s)]

\* list.index: the first position of x in s, 0 when x is not in s
IndexOf(s, x) ==
    IF x \in Range(s) THEN CHOOSE i \in DOMAIN s :
                              s[i] = x /\ \A j \in 1..(i - 1) : s[j] # x
    ELSE 0

\* list.remove(x) on a list that holds x: the first occurrence goes
ListRemove(s, x) ==
    LET i == IndexOf(s, x)
    IN SubSeq(s, 1, i - 1) \o SubSeq(s, i + 1, Len(s))

RECURSIVE SortedSeq(_)
SortedSeq(S) ==
    IF S = {} THEN <<>>
    ELSE LET m == CHOOSE x \in S : \A y \in S : x <= y
         IN <<m>> \o SortedSeq(S \ {m})

\* Integer division that rounds down where the code rounds up.
CeilDiv_floor(n, q) == n \div q

\* math.ceil(n / q) for q > 0
CeilDiv(n, q) == (n + q - 1) \div q


\* ------------------------------------------------------------ the inputs
\* The lists the seat map can give: distinct seat ids, in page order.
SeatLists ==
    {s \in UNION {[1..n -> 1..MaxSeatMap] : n \in 2..MaxSeatMap} :
        IsInjective(s)}

\* The seat map in ascending seat order.
OrderedSeatLists == {[i \in 1..n |-> i] : n \in 2..MaxSeats}

\* get_flight_seat keeps selected_seats sorted, duplicate-free and taken from
\* the seat buttons; "done" starts the reservation only when it is not empty.
Selections(avail) == {SortedSeq(S) : S \in (SUBSET Range(avail)) \ {{}}}

\* get_proxy_list(): the provider's listing, shuffled.
ProxyLists ==
    {s \in UNION {[1..n -> Proxies] : n \in 0..MaxProxies} : IsInjective(s)}

\* ------------------------------------------------------ the quota probe
\* Ryanair.__find_max_tickets_available: count down from the ceiling while the
\* flight card is sold out for that many passengers; 0 stands for None.
\* listed: the flight card is on the page; cap: the largest passenger count
\* for which the card is not sold out.
RECURSIVE find_max_tickets_available(_, _, _)
find_max_tickets_available(n, listed, cap) ==
    IF n > 0
    THEN IF ~listed THEN 0
         ELSE IF n > cap THEN find_max_tickets_available(n - 1, listed, cap)
         ELSE n
    ELSE 0

\* The count is returned as it is, 0 when no passenger count is on sale.
get_number_of_tickets_available_zero(listed, cap, fault) ==
    IF fault # "none" THEN [error |-> fault, tickets |-> 0]
    ELSE [error |-> "none",
          tickets |-> find_max_tickets_available(NumPassengers, listed, cap)]

\* Ryanair.get_number_of_tickets_available: the count, or the error raised.
get_number_of_tickets_available(listed, cap, fault) ==
    IF fault # "none" THEN [error |-> fault, tickets |-> 0]
    ELSE LET n == find_max_tickets_available(NumPassengers, listed, cap)
         IN IF n = 0 THEN [error |-> "SeatsNotAvailableError", tickets |-> 0]
            ELSE [error |-> "none", tickets |-> n]

\* Proxy.__init__: whatsmyip, the authorization listing, then nothing (the
\* current IP is authorized), or a delete and an authorize (another IP is), or
\* an authorize (none is). "refused": the provider answers the authorize with a
\* status other than 201 and HTTPError is raised.
ProxyInit(auth) ==
    CASE auth = "same"    -> [requests |-> 2, error |-> "none"]
      [] auth = "other"   -> [requests |-> 4, error |-> "none"]
      [] auth = "none"    -> [requests |-> 3, error |-> "none"]
      [] auth = "refused" -> [requests |-> 3, error |-> "HTTPError"]

\* ------------------------------------------------------------ the batches
\* Only the first picked seat is removed.
RemoveSeats_first(remaining, picked) ==
    IF picked = <<>> THEN remaining ELSE ListRemove(remaining, Head(picked))

\* seats_remaining = available_seats.copy(); remove each picked seat.
RECURSIVE RemoveSeats(_, _)
RemoveSeats(remaining, picked) ==
    IF picked = <<>> THEN remaining
    ELSE RemoveSeats(ListRemove(remaining, Head(picked)), Tail(picked))

\* The coroutine open_driver_and_reserve(proxy, ..., seats_batch), not yet run.
\* proxy_gets counts the proxies taken from the pool for this batch.
NewTask(seats_batch, proxy) ==
    [seats |-> seats_batch, proxy |-> proxy, proxy_gets |-> 1,
     state |-> "created", attempt |-> 0, driver |-> 0, error |-> "none"]

\* num_seats_to_reserve of one pass of the loop
NumSeatsToReserve(seats_remaining, tickets) ==
    IF Len(seats_remaining) >= tickets THEN tickets ELSE Len(seats_remaining)

\* for i in range(drivers_needed): cut a batch, pop a proxy, append the task.
\* proxy_list.pop() on an empty list raises IndexError and ends the loop.
RECURSIVE BatchLoop(_, _, _, _, _)
BatchLoop(n, seats_remaining, tickets, proxy_list, acc) ==
    IF n = 0 THEN [tasks |-> acc, error |-> "none"]
    ELSE LET num == NumSeatsToReserve(seats_remaining, tickets)
             seats_batch == SubSeq(seats_remaining, 1, num)
         IN IF proxy_list = <<>>
            THEN [tasks |-> acc, error |-> "IndexError"]
            ELSE BatchLoop(n - 1,
                           SubSeq(seats_remaining, num + 1, Len(seats_remaining)),
                           tickets, Front(proxy_list),
                           Append(acc, NewTask(seats_batch, Last(proxy_list))))

\* asyncio.gather(*tasks) wraps every coroutine in a task of the event loop.
Schedule(ts) == [b \in DOMAIN ts |-> [ts[b] EXCEPT !.state = "scheduled"]]

Terminal == {"Reserved", "Abandoned", "Crashed"}
Failed == {"Abandoned", "Crashed"}
InFlight == {"scheduled", "reserving", "sleeping"}

\* The wrapper with "attempt <= max_attempts - 1": one retry too many.
retry_async_extra(t, outcome) ==
    IF outcome = "ok"
    THEN [t EXCEPT !.state = "Reserved", !.driver = 0]
    ELSE IF outcome \in RetryExceptions
         THEN IF t.attempt - 1 <= max_attempts - 1
              THEN [t EXCEPT !.state = "sleeping", !.driver = 0]
              ELSE [t EXCEPT !.state = "Abandoned", !.driver = 0,
                             !.error = outcome]
         ELSE [t EXCEPT !.state = "Crashed", !.driver = 0, !.error = outcome]

\* A wrapper whose except clause holds back every exception.
retry_async_any(t, outcome) ==
    IF outcome = "ok"
    THEN [t EXCEPT !.state = "Reserved", !.driver = 0]
    ELSE IF t.attempt - 1 < max_attempts - 1
         THEN [t EXCEPT !.state = "sleeping", !.driver = 0]
         ELSE [t EXCEPT !.state = "Abandoned", !.driver = 0, !.error = outcome]

\* retry_async's wrapper after one call of the wrapped function ended with
\* outcome: return, sleep and go round again, or re-raise. The finally of
\* open_driver_and_reserve has quit the driver before the wrapper sees it.
retry_async(t, outcome) ==
    IF outcome = "ok"
    THEN [t EXCEPT !.state = "Reserved", !.driver = 0]
    ELSE IF outcome \in RetryExceptions
         THEN IF t.attempt - 1 < max_attempts - 1
              THEN [t EXCEPT !.state = "sleeping", !.driver = 0]
              ELSE [t EXCEPT !.state = "Abandoned", !.driver = 0,
                             !.error = outcome]
         ELSE [t EXCEPT !.state = "Crashed", !.driver = 0, !.error = outcome]

\* One call of open_driver_and_reserve by the wrapper: create_webdriver(proxy)
\* with the arguments the task was created with, then reserve_seats in a thread.
open_driver(t) ==
    [t EXCEPT !.state = "reserving", !.attempt = t.attempt + 1,
              !.driver = t.attempt + 1]

\* ------------------------------------------------------- the conversation
\* A user_data that holds no key.
NoData == [k \in {} |-> 0]

\* end_conversation: context.user_data.clear(), return ConversationHandler.END
end_conversation ==
    /\ conv_state' = "END"
    /\ user_data' = NoData

\* No function is run alone.
NoCall ==
    /\ input = <<>>
    /\ output = <<>>

\* ------------------------------------------------------------ the actions
\* start_reservation up to the try: the probe's driver, Ryanair, Proxy(token).
StartReservation ==
    /\ pc = "start"
    /\ \E auth \in {"same", "other", "none", "refused"} :
         LET r == ProxyInit(auth)
         IN /\ auth_requests' = auth_requests + r.requests
            /\ pc' = IF r.error = "none" THEN "probe" ELSE "raised"
            /\ raised' = r.error
            /\ proxy_inits' = IF r.error = "none" THEN proxy_inits + 1
                              ELSE proxy_inits
    /\ probe_driver' = "open"
    /\ UNCHANGED <<available_seats, seats_to_reserve, probe_calls,
                   available_tickets, list_requests, tasks, message>>
    /\ UNCHANGED <<probe_error, poolVars, convVars, callVars>>

\* try: available_tickets = ra.get_number_of_tickets_available() returns.
ProbeReturns ==
    /\ pc = "probe"
    /\ \E listed \in BOOLEAN, cap \in 0..NumPassengers :
         LET r == get_number_of_tickets_available(listed, cap, "none")
         IN /\ r.error = "none"
            /\ available_tickets' = r.tickets
    /\ probe_calls' = probe_calls + 1
    /\ probe_driver' = "quit"
    /\ pc' = "batching"
    /\ UNCHANGED <<available_seats, seats_to_reserve, auth_requests, list_requests, tasks,
                   message, raised>>
    /\ UNCHANGED <<probe_error, proxy_inits, poolVars, convVars, callVars>>

\* The handler reports the error and probes again instead of returning.
ProbeFails_retry ==
    /\ pc = "probe"
    /\ probe_calls < 2
    /\ \E listed \in BOOLEAN, cap \in 0..NumPassengers, fault \in ProbeFaults :
         LET r == get_number_of_tickets_available(listed, cap, fault)
         IN /\ r.error \in ProbeHandled
            /\ probe_error' = r.error
            /\ message' = IF r.error = "RyanairScriptError"
                          THEN "something_wrong" ELSE "flight_info_changed"
    /\ probe_calls' = probe_calls + 1
    /\ UNCHANGED <<available_seats, seats_to_reserve, pc, probe_driver,
                   available_tickets, auth_requests, list_requests, tasks,
                   raised>>
    /\ UNCHANGED <<proxy_inits, poolVars, convVars, callVars>>

\* The probe raises a class one of the except clauses names: the message is
\* edited, end_conversation runs, the finally quits the driver.
ProbeFails ==
    /\ pc = "probe"
    /\ \E listed \in BOOLEAN, cap \in 0..NumPassengers, fault \in ProbeFaults :
         LET r == get_number_of_tickets_available(listed, cap, fault)
         IN /\ r.error \in ProbeHandled
            /\ probe_error' = r.error
            /\ message' = IF r.error = "RyanairScriptError"
                          THEN "something_wrong" ELSE "flight_info_changed"
    /\ probe_calls' = probe_calls + 1
    /\ probe_driver' = "quit"
    /\ pc' = "ended"
    /\ end_conversation
    /\ UNCHANGED <<available_seats, seats_to_reserve, available_tickets,
                   auth_requests, list_requests, tasks, raised>>
    /\ UNCHANGED <<proxy_inits, poolVars, callVars>>

\* The probe raises a class no clause names: the finally quits the driver and
\* the exception leaves start_reservation.
ProbeCrashes ==
    /\ pc = "probe"
    /\ \E listed \in BOOLEAN, cap \in 0..NumPassengers, fault \in ProbeFaults :
         LET r == get_number_of_tickets_available(listed, cap, fault)
         IN /\ r.error \notin ProbeHandled \cup {"none"}
            /\ probe_error' = r.error
            /\ raised' = r.error
    /\ probe_calls' = probe_calls + 1
    /\ probe_driver' = "quit"
    /\ pc' = "raised"
    /\ UNCHANGED <<available_seats, seats_to_reserve, available_tickets,
                   auth_requests, list_requests, tasks, message>>
    /\ UNCHANGED <<proxy_inits, poolVars, convVars, callVars>>

\* From the probe to the await of asyncio.gather: no await lies between them
\* but send_action. list.remove raises ValueError for a seat that is not there.
BuildBatches ==
    /\ pc = "batching"
    /\ IF Range(seats_to_reserve) \subseteq Range(available_seats)
       THEN \E proxy_list \in ProxyLists :
              LET seats_remaining == RemoveSeats(available_seats, seats_to_reserve)
                  drivers_needed == CeilDiv(Len(seats_remaining), available_tickets)
                  r == BatchLoop(drivers_needed, seats_remaining,
                                 available_tickets, proxy_list, <<>>)
              IN /\ list_requests' = list_requests + 1
                 /\ IF r.error = "none"
                    THEN /\ tasks' = Schedule(r.tasks)
                         /\ pc' = "gather"
                         /\ UNCHANGED raised
                    ELSE /\ tasks' = r.tasks
                         /\ pc' = "raised"
                         /\ raised' = r.error
       ELSE /\ pc' = "raised"
            /\ raised' = "ValueError"
            /\ UNCHANGED <<list_requests, tasks>>
    /\ UNCHANGED <<available_seats, seats_to_reserve, probe_driver, probe_calls,
                   available_tickets, auth_requests, message>>
    /\ UNCHANGED <<probe_error, proxy_inits, poolVars, convVars, callVars>>

\* The wrapper calls the wrapped function: first when the task starts, again
\* when asyncio.sleep(delay) is over.
BeginAttempt(b) ==
    /\ tasks[b].state \in {"scheduled", "sleeping"}
    /\ tasks' = [tasks EXCEPT ![b] = open_driver(tasks[b])]
    /\ UNCHANGED <<available_seats, seats_to_reserve, pc, probe_driver,
                   probe_calls, available_tickets, auth_requests, list_requests, message,
                   raised>>
    /\ UNCHANGED <<probe_error, proxy_inits, poolVars, convVars, callVars>>

\* ra.reserve_seats ends with outcome, the finally quits the driver, the
\* wrapper decides.
EndAttemptWith(b, outcome) ==
    /\ tasks[b].state = "reserving"
    /\ tasks' = [tasks EXCEPT ![b] = retry_async(tasks[b], outcome)]
    /\ UNCHANGED <<available_seats, seats_to_reserve, pc, probe_driver,
                   probe_calls, available_tickets, auth_requests, list_requests, message,
                   raised>>
    /\ UNCHANGED <<probe_error, proxy_inits, poolVars, convVars, callVars>>

EndAttempt(b) == \E outcome \in ReserveOutcomes : EndAttemptWith(b, outcome)

\* A gather that returns once every task has ended, however it ended.
GatherReturns_settled ==
    /\ pc = "gather"
    /\ \A b \in DOMAIN tasks : tasks[b].state \in Terminal
    /\ message' = "reservation_complete"
    /\ pc' = "ended"
    /\ end_conversation
    /\ UNCHANGED <<available_seats, seats_to_reserve, probe_driver, probe_calls,
                   available_tickets, auth_requests, list_requests, tasks, raised>>
    /\ UNCHANGED <<probe_error, proxy_inits, poolVars, callVars>>

\* await asyncio.gather(*tasks) returns: every task returned. Then the
\* reservation_complete message and end_conversation.
GatherReturns ==
    /\ pc = "gather"
    /\ \A b \in DOMAIN tasks : tasks[b].state = "Reserved"
    /\ message' = "reservation_complete"
    /\ pc' = "ended"
    /\ end_conversation
    /\ UNCHANGED <<available_seats, seats_to_reserve, probe_driver, probe_calls,
                   available_tickets, auth_requests, list_requests, tasks, raised>>
    /\ UNCHANGED <<probe_error, proxy_inits, poolVars, callVars>>

\* A gather that cancels the tasks still running when one of them raises.
GatherRaises_cancel ==
    /\ pc = "gather"
    /\ \E b \in DOMAIN tasks :
         /\ tasks[b].state \in Failed
         /\ raised' = tasks[b].error
    /\ tasks' = [b \in DOMAIN tasks |->
                   IF tasks[b].state \in InFlight
                   THEN [tasks[b] EXCEPT !.state = "Cancelled", !.driver = 0]
                   ELSE tasks[b]]
    /\ pc' = "raised"
    /\ UNCHANGED <<available_seats, seats_to_reserve, probe_driver, probe_calls,
                   available_tickets, auth_requests, list_requests, message>>
    /\ UNCHANGED <<probe_error, proxy_inits, poolVars, convVars, callVars>>

\* await asyncio.gather(*tasks) raises: a task raised, and gather (without
\* return_exceptions) hands that exception to its awaiter at once; the other
\* tasks are left on the event loop.
GatherRaises ==
    /\ pc = "gather"
    /\ \E b \in DOMAIN tasks :
         /\ tasks[b].state \in Failed
         /\ raised' = tasks[b].error
    /\ pc' = "raised"
    /\ UNCHANGED <<available_seats, seats_to_reserve, probe_driver, probe_calls,
                   available_tickets, auth_requests, list_requests, tasks, message>>
    /\ UNCHANGED <<probe_error, proxy_inits, poolVars, convVars, callVars>>

\* ---------------------------------------------------------- the proxy pool
\* Proxy.__proxies maps "host:port" to the time of last use, 0 for never. A
\* dict keeps its keys in insertion order, and min() returns the first of the
\* least, so the store is the sequence of its entries.
Addresses == 1..MaxAddresses

\* Proxy's methods are synchronous and the bot calls Proxy on the thread of
\* the event loop: one call at a time.
Callers == {1}

\* Proxy takes no lock: were get() called from threads (asyncio.to_thread, as
\* the bot calls Ryanair), the interpreter could switch threads between any two
\* of its statements.
Threads == {1, 2}

Tracked(store) == {store[i].proxy : i \in DOMAIN store}

\* proxy_store[p] for a key the store holds
LastUsed(store, p) ==
    store[CHOOSE i \in DOMAIN store : store[i].proxy = p].last_used

\* The first entry, whatever its time of last use.
min_first(store) == store[1].proxy

\* min(proxy_store, key=proxy_store.get) on a store that is not empty
min_last_used(store) ==
    LET i == CHOOSE i \in DOMAIN store :
                 /\ \A j \in DOMAIN store : store[i].last_used <= store[j].last_used
                 /\ \A j \in 1..(i - 1) : store[i].last_used < store[j].last_used
    IN store[i].proxy

\* proxy_store[p] = t: the entry is updated in place, a new key goes last
SetItem(store, p, t) ==
    IF p \in Tracked(store)
    THEN [i \in DOMAIN store |->
            IF store[i].proxy = p THEN [store[i] EXCEPT !.last_used = t]
            ELSE store[i]]
    ELSE Append(store, [proxy |-> p, last_used |-> t])

\* del proxy_store[p]
DelItem(store, p) == SelectSeq(store, LAMBDA e : e.proxy # p)

\* The orders a for loop can walk a set of strings in.
Orders(S) ==
    {s \in [1..Cardinality(S) -> S] : IsInjective(s)}

\* A refresh that gives every listed address the time 0, tracked or not.
refresh_reset(store, proxy_set, new_order) ==
    LET added == store \o [i \in DOMAIN new_order |->
                             [proxy |-> new_order[i], last_used |-> 0]]
    IN [i \in DOMAIN SelectSeq(added, LAMBDA e : e.proxy \in proxy_set) |->
          [SelectSeq(added, LAMBDA e : e.proxy \in proxy_set)[i]
              EXCEPT !.last_used = 0]]

\* A refresh that keeps only the addresses new to the store.
refresh_swap(store, proxy_set, new_order) ==
    [i \in DOMAIN new_order |-> [proxy |-> new_order[i], last_used |-> 0]]

\* A refresh that adds the new addresses and removes none.
refresh_keep(store, proxy_set, new_order) ==
    store \o [i \in DOMAIN new_order |->
                [proxy |-> new_order[i], last_used |-> 0]]

\* Proxy.refresh once the listing is fetched: the addresses new to the store
\* are added with 0.0 in the order the set difference is walked in (new_order),
\* then the tracked addresses the listing lacks are deleted.
refresh(store, proxy_set, new_order) ==
    LET added == store \o [i \in DOMAIN new_order |->
                             [proxy |-> new_order[i], last_used |-> 0]]
    IN SelectSeq(added, LAMBDA e : e.proxy \in proxy_set)

\* requests.get of the listing: it answers with results, the provider cannot
\* be reached, or it answers without a "results" key.
FetchOutcomes == {"ok", "ConnectionError", "KeyError"}

\* A caller that is in no call: op and the rest tell how its last call ended.
\* again: the call was a refresh that fetched the listing the refresh before
\* it had fetched, with no other call between the two; added: the number of
\* addresses the refresh of the call added to the store; size: the length of
\* the store when the while loop of get() was entered; probes: the calls of
\* _can_access_ryanair the loop has made.
Idle(op, result, error, again, added) ==
    [op |-> op, pc |-> "idle", proxy |-> 0, result |-> result, error |-> error,
     again |-> again, added |-> added, size |-> 0, probes |-> 0]

\* last_got is still tracked after the store became store2
KeptIn(store2) == last_got_kept /\ last_got \in Tracked(store2)

\* A failed fetch empties the store.
Refresh_clear(c) ==
    /\ call[c].pc = "idle"
    /\ \E outcome \in FetchOutcomes :
         IF outcome = "ok"
         THEN \E proxy_set \in SUBSET Addresses :
              \E new_order \in Orders(proxy_set \ Tracked(proxy_store)) :
                /\ proxy_store' = refresh(proxy_store, proxy_set, new_order)
                /\ snapshot' = proxy_set
                /\ call' = [call EXCEPT ![c] =
                              Idle("refresh", 0, "none",
                                   /\ call[c].op = "refresh"
                                   /\ call[c].error = "none"
                                   /\ snapshot = proxy_set,
                                   Len(new_order))]
         ELSE /\ proxy_store' = <<>>
              /\ call' = [call EXCEPT ![c] = Idle("refresh", 0, outcome, FALSE, 0)]
              /\ UNCHANGED snapshot
    /\ last_got_kept' = KeptIn(proxy_store')
    /\ handed_out' = handed_out \cap Tracked(proxy_store')
    /\ UNCHANGED <<reachable, now, last_got>>
    /\ UNCHANGED <<roundVars, convVars, callVars>>

\* Proxy.refresh(): the listing is fetched (proxy_set: what the provider lists
\* at that moment), then the store is reconciled with it; an exception of the
\* fetch leaves before the store is touched.
Refresh(c) ==
    /\ call[c].pc = "idle"
    /\ \E outcome \in FetchOutcomes :
         IF outcome = "ok"
         THEN \E proxy_set \in SUBSET Addresses :
              \E new_order \in Orders(proxy_set \ Tracked(proxy_store)) :
                /\ proxy_store' = refresh(proxy_store, proxy_set, new_order)
                /\ snapshot' = proxy_set
                /\ call' = [call EXCEPT ![c] =
                              Idle("refresh", 0, "none",
                                   /\ call[c].op = "refresh"
                                   /\ call[c].error = "none"
                                   /\ snapshot = proxy_set,
                                   Len(new_order))]
         ELSE /\ call' = [call EXCEPT ![c] = Idle("refresh", 0, outcome, FALSE, 0)]
              /\ UNCHANGED <<proxy_store, snapshot>>
    /\ last_got_kept' = KeptIn(proxy_store')
    /\ handed_out' = handed_out \cap Tracked(proxy_store')
    /\ UNCHANGED <<reachable, now, last_got>>
    /\ UNCHANGED <<roundVars, convVars, callVars>>

\* Proxy.get() up to the while: "if not proxy_store: self.refresh()".
GetBegins(c) ==
    /\ call[c].pc = "idle"
    /\ IF proxy_store = <<>>
       THEN \E outcome \in FetchOutcomes :
              IF outcome = "ok"
              THEN \E proxy_set \in SUBSET Addresses :
                   \E new_order \in Orders(proxy_set) :
                     /\ proxy_store' = refresh(proxy_store, proxy_set, new_order)
                     /\ snapshot' = proxy_set
                     /\ call' = [call EXCEPT ![c] =
                                   [Idle("get", 0, "none", FALSE,
                                         Len(new_order))
                                       EXCEPT !.pc = "select",
                                              !.size = Len(proxy_store')]]
              ELSE /\ call' = [call EXCEPT ![c] = Idle("get", 0, outcome, FALSE, 0)]
                   /\ UNCHANGED <<proxy_store, snapshot>>
       ELSE /\ call' = [call EXCEPT ![c] =
                          [Idle("get", 0, "none", FALSE, 0)
                              EXCEPT !.pc = "select",
                                     !.size = Len(proxy_store)]]
            /\ UNCHANGED <<proxy_store, snapshot>>
    /\ UNCHANGED <<reachable, now, handed_out, last_got, last_got_kept>>
    /\ UNCHANGED <<roundVars, convVars, callVars>>

\* A get() that waits at its selection while another caller is between its
\* own selection and its stamp.
Select_locked(c) ==
    /\ call[c].pc = "select"
    /\ \A d \in Threads \ {c} : call[d].pc # "stamp"
    /\ IF proxy_store = <<>>
       THEN /\ call' = [call EXCEPT ![c] = Idle("get", 0, "none", FALSE, 0)]
            /\ last_got' = 0
            /\ last_got_kept' = FALSE
       ELSE /\ call' = [call EXCEPT ![c].pc = "stamp",
                                    ![c].proxy = min_last_used(proxy_store)]
            /\ UNCHANGED <<last_got, last_got_kept>>
    /\ UNCHANGED <<proxy_store, reachable, now, snapshot, handed_out>>
    /\ UNCHANGED <<roundVars, convVars, callVars>>

\* "while len(proxy_store) > 0": a store that is empty ends the loop and get()
\* returns None; otherwise "proxy = min(proxy_store, key=proxy_store.get)".
Select(c) ==
    /\ call[c].pc = "select"
    /\ IF proxy_store = <<>>
       THEN /\ call' = [call EXCEPT ![c] = Idle("get", 0, "none", FALSE, 0)]
            /\ last_got' = 0
            /\ last_got_kept' = FALSE
       ELSE /\ call' = [call EXCEPT ![c].pc = "stamp",
                                    ![c].proxy = min_last_used(proxy_store)]
            /\ UNCHANGED <<last_got, last_got_kept>>
    /\ UNCHANGED <<proxy_store, reachable, now, snapshot, handed_out>>
    /\ UNCHANGED <<roundVars, convVars, callVars>>

\* The selected address goes to its probe with the time it had.
Stamp_skip(c) ==
    /\ call[c].pc = "stamp"
    /\ call' = [call EXCEPT ![c].pc = "probe", ![c].probes = @ + 1]
    /\ UNCHANGED <<proxy_store, now, reachable, snapshot, handed_out,
                   last_got, last_got_kept>>
    /\ UNCHANGED <<roundVars, convVars, callVars>>

\* "proxy_store[proxy] = time.time()": a probe lies between any two readings
\* of the clock, so each reading is later than the one before.
Stamp(c) ==
    /\ call[c].pc = "stamp"
    /\ now < MaxTime
    /\ now' = now + 1
    /\ proxy_store' = SetItem(proxy_store, call[c].proxy, now')
    /\ call' = [call EXCEPT ![c].pc = "probe", ![c].probes = @ + 1]
    /\ UNCHANGED <<reachable, snapshot, handed_out, last_got, last_got_kept>>
    /\ UNCHANGED <<roundVars, convVars, callVars>>

\* A get() that hands the address out as never used.
GetReturns_release(c) ==
    /\ call[c].pc = "probe"
    /\ call[c].proxy \in reachable
    /\ call' = [call EXCEPT ![c] = Idle("get", call[c].proxy, "none", FALSE, 0)]
    /\ proxy_store' = [i \in DOMAIN proxy_store |->
                         IF proxy_store[i].proxy = call[c].proxy
                         THEN [proxy_store[i] EXCEPT !.last_used = 0]
                         ELSE proxy_store[i]]
    /\ handed_out' = (handed_out \cup {call[c].proxy}) \cap Tracked(proxy_store)
    /\ last_got' = call[c].proxy
    /\ last_got_kept' = (call[c].proxy \in Tracked(proxy_store))
    /\ UNCHANGED <<reachable, now, snapshot>>
    /\ UNCHANGED <<roundVars, convVars, callVars>>

\* _can_access_ryanair(proxy) is True: "return proxy".
GetReturns(c) ==
    /\ call[c].pc = "probe"
    /\ call[c].proxy \in reachable
    /\ call' = [call EXCEPT ![c] = Idle("get", call[c].proxy, "none", FALSE, 0)]
    /\ handed_out' = (handed_out \cup {call[c].proxy}) \cap Tracked(proxy_store)
    /\ last_got' = call[c].proxy
    /\ last_got_kept' = (call[c].proxy \in Tracked(proxy_store))
    /\ UNCHANGED <<proxy_store, reachable, now, snapshot>>
    /\ UNCHANGED <<roundVars, convVars, callVars>>

\* The address that failed its probe stays in the store.
GetEvicts_keep(c) ==
    /\ call[c].pc = "probe"
    /\ call[c].proxy \notin reachable
    /\ call' = [call EXCEPT ![c].pc = "select", ![c].proxy = 0]
    /\ UNCHANGED <<proxy_store, last_got_kept>>
    /\ UNCHANGED <<reachable, now, snapshot, handed_out, last_got>>
    /\ UNCHANGED <<roundVars, convVars, callVars>>

\* _can_access_ryanair(proxy) is False: "del proxy_store[proxy]" and round the
\* loop again; del raises KeyError for a key that is gone.
GetEvicts(c) ==
    /\ call[c].pc = "probe"
    /\ call[c].proxy \notin reachable
    /\ IF call[c].proxy \in Tracked(proxy_store)
       THEN /\ proxy_store' = DelItem(proxy_store, call[c].proxy)
            /\ call' = [call EXCEPT ![c].pc = "select", ![c].proxy = 0]
       ELSE /\ call' = [call EXCEPT ![c] = Idle("get", 0, "KeyError", FALSE, 0)]
            /\ UNCHANGED proxy_store
    /\ last_got_kept' = KeptIn(proxy_store')
    /\ handed_out' = handed_out \cap Tracked(proxy_store')
    /\ UNCHANGED <<reachable, now, snapshot, last_got>>
    /\ UNCHANGED <<roundVars, convVars, callVars>>

\* Ryanair starts or stops answering through one address; only tracked
\* addresses are ever probed.
NetworkChanges ==
    /\ \E a \in Tracked(proxy_store) :
         reachable' = IF a \in reachable THEN reachable \ {a}
                      ELSE reachable \cup {a}
    /\ UNCHANGED <<proxy_store, now, call, snapshot, handed_out, last_got,
                   last_got_kept>>
    /\ UNCHANGED <<roundVars, convVars, callVars>>

\* No Proxy call has been made: the store is the empty class attribute.
PoolEmpty ==
    /\ proxy_store = <<>>
    /\ now = 0
    /\ call = [c \in Threads |-> Idle("none", 0, "none", FALSE, 0)]
    /\ snapshot = {}
    /\ handed_out = {}
    /\ last_got = 0
    /\ last_got_kept = FALSE

\* start_reservation calls neither refresh() nor get().
PoolNotUsed ==
    /\ PoolEmpty
    /\ reachable = {}

\* No reservation round is running.
RoundNotRunning ==
    /\ available_seats = <<>>
    /\ seats_to_reserve = <<>>
    /\ pc = "none"
    /\ probe_driver = "none"
    /\ probe_calls = 0
    /\ probe_error = "none"
    /\ available_tickets = 0
    /\ auth_requests = 0
    /\ list_requests = 0
    /\ tasks = <<>>
    /\ message = "none"
    /\ raised = "none"
    /\ proxy_inits = 0

\* No conversation is going on: the chat has no state, its user_data no key.
NoConversation ==
    /\ conv_state = "END"
    /\ user_data = NoData

\* ------------------------------------------------ the handlers of the chat
\* d[k] = v on a dict
SetKey(d, k, v) == [x \in DOMAIN d \cup {k} |-> IF x = k THEN v ELSE d[x]]

\* d.get(k, default)
GetKey(d, k, default) == IF k \in DOMAIN d THEN d[k] ELSE default

\* The texts a user sends for an airport, and text.strip().upper() of each.
AirportTexts == {"dub", "STN", "d1", "XQZ"}

Upper(text) ==
    CASE text = "dub" -> "DUB"
      [] text = "d1" -> "D1"
      [] OTHER -> text

\* isalpha() and len() == 3
IsAlpha3(code) == code \in {"DUB", "STN", "XQZ"}

\* The codes airporttime.AirportTime knows; it raises TypeError for the rest.
Airports == {"DUB", "STN"}

\* The texts a user sends for the time, and what "%H:%M" makes of each after
\* the colon is put into a text of four digits: the time as HH:MM, or
\* "ValueError".
TimeTexts == {"0630", "6:30", "06:30", "2500", "soon"}

FormatTime(text) ==
    IF text \in {"0630", "6:30", "06:30"} THEN "06:30" ELSE "ValueError"

\* What get_available_seats_in_flight ends with: the seats of the seat map, or
\* an error; the handler names the first three in its except clauses.
LookupHandled == {"FlightNotFoundError", "FlightSoldOutError", "RyanairScriptError"}

LookupOutcomes == {"ok", "TimeoutException"} \cup LookupHandled

SeatsShown == {[i \in 1..n |-> i] : n \in 0..MaxSeatsShown}

\* The dispatcher hands the chat's next update to a handler only when the
\* handler of the update before it is over.
HandlerFree == pc \in {"none", "ended", "raised"}

\* A handler that starts after a run of start_reservation finds nothing of it:
\* its locals are gone with the coroutine, and the tasks it may have left on
\* the event loop have run to their ends. What stays is the number of Proxy
\* objects the process has made.
ForgetRound ==
    /\ \A b \in DOMAIN tasks : tasks[b].state \notin InFlight
    /\ available_seats' = <<>>
    /\ seats_to_reserve' = <<>>
    /\ pc' = "none"
    /\ probe_driver' = "none"
    /\ probe_calls' = 0
    /\ probe_error' = "none"
    /\ available_tickets' = 0
    /\ auth_requests' = 0
    /\ list_requests' = 0
    /\ tasks' = <<>>
    /\ message' = "none"
    /\ raised' = "none"
    /\ UNCHANGED proxy_inits

\* /reserve in a chat that is in no conversation.
reserve_seat_start ==
    /\ HandlerFree
    /\ conv_state = "END"
    /\ conv_state' = "ORIGIN"
    /\ ForgetRound
    /\ UNCHANGED <<user_data, poolVars, callVars>>

get_flight_origin(text) ==
    /\ HandlerFree
    /\ conv_state = "ORIGIN"
    /\ LET origin_input == Upper(text)
       IN IF IsAlpha3(origin_input) /\ origin_input \in Airports
          THEN /\ user_data' = SetKey(user_data, "origin", origin_input)
               /\ conv_state' = "DESTINATION"
          ELSE /\ conv_state' = "ORIGIN"
               /\ UNCHANGED user_data
    /\ ForgetRound
    /\ UNCHANGED <<poolVars, callVars>>

\* A code of three letters that is no airport sends the chat back to ORIGIN.
get_flight_destination(text) ==
    /\ HandlerFree
    /\ conv_state = "DESTINATION"
    /\ LET destination_input == Upper(text)
       IN IF ~IsAlpha3(destination_input)
          THEN /\ conv_state' = "DESTINATION"
               /\ UNCHANGED user_data
          ELSE IF destination_input \notin Airports
          THEN /\ conv_state' = "ORIGIN"
               /\ UNCHANGED user_data
          ELSE /\ user_data' = SetKey(user_data, "destination", destination_input)
               /\ conv_state' = "TIME"
    /\ ForgetRound
    /\ UNCHANGED <<poolVars, callVars>>

\* The time is stored, the seats are looked up unless user_data holds some,
\* then: an error the handler names ends the conversation, so does a single
\* seat; any other exception leaves the handler and the chat stays in TIME
\* (the lookup's own, or ZeroDivisionError of divide_seats_evenly for no seat).
get_flight_time(text, outcome, seats) ==
    /\ HandlerFree
    /\ conv_state = "TIME"
    /\ IF FormatTime(text) = "ValueError"
       THEN /\ conv_state' = "TIME"
            /\ UNCHANGED user_data
       ELSE LET timed == SetKey(user_data, "time", FormatTime(text))
                looked_up == GetKey(user_data, "available_seats", <<>>) = <<>>
                found == IF looked_up /\ outcome = "ok"
                         THEN SetKey(timed, "available_seats", seats)
                         ELSE timed
            IN IF looked_up /\ outcome \in LookupHandled
               THEN end_conversation
               ELSE IF looked_up /\ outcome # "ok"
               THEN /\ user_data' = timed
                    /\ conv_state' = "TIME"
               ELSE IF Len(found["available_seats"]) = 1
               THEN end_conversation
               ELSE /\ user_data' = found
                    /\ conv_state' = IF found["available_seats"] = <<>>
                                      THEN "TIME" ELSE "SEATS_SELECTION"
    /\ ForgetRound
    /\ UNCHANGED <<poolVars, callVars>>

\* callback_data="done", among seats that are numbers
Done == 0

\* The buttons of the seat keyboard: one per available seat, and "done".
SeatButtons == Range(GetKey(user_data, "available_seats", <<>>)) \cup {Done}

\* A handler that appends the pressed seat and leaves the list as it is.
get_flight_seat_append(data) ==
    /\ HandlerFree
    /\ conv_state = "SEATS_SELECTION"
    /\ LET selected_seats == GetKey(user_data, "selected_seats", <<>>)
       IN IF data = Done
          THEN IF selected_seats = <<>>
               THEN ForgetRound /\ UNCHANGED convVars
               ELSE /\ proxy_inits < MaxRounds
                    /\ \A b \in DOMAIN tasks : tasks[b].state \notin InFlight
                    /\ available_seats' = user_data["available_seats"]
                    /\ seats_to_reserve' = selected_seats
                    /\ pc' = "start"
                    /\ probe_driver' = "none"
                    /\ probe_error' = "none"
                    /\ available_tickets' = 0
                    /\ tasks' = <<>>
                    /\ message' = "reserving_seats"
                    /\ raised' = "none"
                    /\ probe_calls' = 0
                    /\ auth_requests' = 0
                    /\ list_requests' = 0
                    /\ UNCHANGED <<proxy_inits, convVars>>
          ELSE /\ user_data' =
                    SetKey(user_data, "selected_seats",
                           IF data \in Range(selected_seats)
                           THEN ListRemove(selected_seats, data)
                           ELSE Append(selected_seats, data))
               /\ ForgetRound
               /\ UNCHANGED conv_state
    /\ UNCHANGED <<poolVars, callVars>>

\* A button of the seat keyboard is pressed: a seat is taken into or out of
\* selected_seats, which is kept sorted; "done" with seats selected goes on
\* into start_reservation with that list.
get_flight_seat(data) ==
    /\ HandlerFree
    /\ conv_state = "SEATS_SELECTION"
    /\ LET selected_seats == GetKey(user_data, "selected_seats", <<>>)
       IN IF data = Done
          THEN IF selected_seats = <<>>
               THEN ForgetRound /\ UNCHANGED convVars
               ELSE /\ proxy_inits < MaxRounds
                    /\ \A b \in DOMAIN tasks : tasks[b].state \notin InFlight
                    /\ available_seats' = user_data["available_seats"]
                    /\ seats_to_reserve' = selected_seats
                    /\ pc' = "start"
                    /\ probe_driver' = "none"
                    /\ probe_error' = "none"
                    /\ available_tickets' = 0
                    /\ tasks' = <<>>
                    /\ message' = "reserving_seats"
                    /\ raised' = "none"
                    /\ probe_calls' = 0
                    /\ auth_requests' = 0
                    /\ list_requests' = 0
                    /\ UNCHANGED <<proxy_inits, convVars>>
          ELSE /\ user_data' =
                    SetKey(user_data, "selected_seats",
                           IF data \in Range(selected_seats)
                           THEN ListRemove(selected_seats, data)
                           ELSE SortedSeq(Range(selected_seats) \cup {data}))
               /\ ForgetRound
               /\ UNCHANGED conv_state
    /\ UNCHANGED <<poolVars, callVars>>

\* /cancel in any state of the conversation
cancel ==
    /\ HandlerFree
    /\ conv_state # "END"
    /\ end_conversation
    /\ ForgetRound
    /\ UNCHANGED <<poolVars, callVars>>

\* ------------------------------------------------- functions run alone
\* The lists of distinct seat ids: a batch handed to reserve_seats, the seats
\* the seat map shows as available.
SeatIdLists ==
    {s \in UNION {[1..n -> 1..MaxSeats] : n \in 0..MaxSeats} : IsInjective(s)}

\* What the search page shows for the flight.
SearchPages == {"flight", "no_flights", "no_card", "sold_out"}

\* How the steps after the seat check end: __select_seats raises
\* RyanairScriptError for a seat element that is gone, the waits time out.
SelectOutcomes == {"ok", "RyanairScriptError", "TimeoutException"}

CallRaised(error, payload) ==
    [state |-> "raised", error |-> error, payload |-> payload]

CallReturned(value) ==
    [state |-> "returned", error |-> "none", payload |-> value]

\* How a call of reserve_seats ended, and the seats it clicked in the seat map.
WithSelected(ended, selected) ==
    [state |-> ended.state, error |-> ended.error, payload |-> ended.payload,
     selected |-> selected]

\* A reserve_seats that clicks the requested seats the seat map shows and
\* looks for the missing ones afterwards.
reserve_seats_eager(seats, page, seatmap, rest, gone) ==
    IF page \in {"no_flights", "no_card"}
    THEN WithSelected(CallRaised("FlightNotFoundError", <<>>), <<>>)
    ELSE IF page = "sold_out"
    THEN WithSelected(CallRaised("FlightSoldOutError", <<>>), <<>>)
    ELSE IF ~(\A i \in DOMAIN seats : seats[i] \in Range(seatmap))
    THEN WithSelected(
             CallRaised("SeatSelectionError",
                 SelectSeq(seatmap, LAMBDA elem : elem \notin Range(seats))),
             SelectSeq(seats, LAMBDA elem : elem \in Range(seatmap)))
    ELSE IF gone \in DOMAIN seats
    THEN WithSelected(CallRaised("RyanairScriptError", <<>>),
                      SubSeq(seats, 1, gone - 1))
    ELSE IF rest # "ok" THEN WithSelected(CallRaised(rest, <<>>), seats)
    ELSE WithSelected(CallReturned(seats), seats)

\* Ryanair.reserve_seats(seats) on a page that shows page for the flight and
\* seatmap as the available seats. After the seat check __select_seats clicks
\* the seats in order and raises RyanairScriptError at the first whose element
\* is gone from the page (the one at index gone, 0 for none); rest is how the
\* steps after it end.
reserve_seats(seats, page, seatmap, rest, gone) ==
    IF page \in {"no_flights", "no_card"}
    THEN WithSelected(CallRaised("FlightNotFoundError", <<>>), <<>>)
    ELSE IF page = "sold_out"
    THEN WithSelected(CallRaised("FlightSoldOutError", <<>>), <<>>)
    ELSE IF ~(\A i \in DOMAIN seats : seats[i] \in Range(seatmap))
    THEN WithSelected(
             CallRaised("SeatSelectionError",
                 SelectSeq(seatmap, LAMBDA elem : elem \notin Range(seats))),
             <<>>)
    ELSE IF gone \in DOMAIN seats
    THEN WithSelected(CallRaised("RyanairScriptError", <<>>),
                      SubSeq(seats, 1, gone - 1))
    ELSE IF rest # "ok" THEN WithSelected(CallRaised(rest, <<>>), seats)
    ELSE WithSelected(CallReturned(seats), seats)

\* One call of reserve_seats.
ReserveSeats ==
    /\ input.function = "reserve_seats"
    /\ output.state = "called"
    /\ output' = reserve_seats(input.seats, input.page, input.seatmap,
                               input.rest, input.gone)
    /\ UNCHANGED <<input, roundVars, poolVars, convVars>>

\* The quota probe as it starts: __num_passengers is the ceiling of __init__,
\* no search page has been opened for a passenger count yet.
QuotaProbeCalled ==
    [state |-> "called", error |-> "none", payload |-> 0,
     num_passengers |-> NumPassengers, opened |-> <<>>]

\* A probe that goes down two passenger counts at a time.
QuotaProbe_skip ==
    /\ input.function = "get_number_of_tickets_available"
    /\ output.state = "called"
    /\ LET n == output.num_passengers
           o == [output EXCEPT !.opened = Append(@, n)]
       IN output' =
            IF ~input.listed
            THEN [o EXCEPT !.state = "raised", !.error = "SeatsNotAvailableError"]
            ELSE IF n \notin input.on_sale
            THEN IF n - 2 > 0
                 THEN [o EXCEPT !.num_passengers = n - 2]
                 ELSE [o EXCEPT !.num_passengers = 0, !.state = "raised",
                                !.error = "SeatsNotAvailableError"]
            ELSE [o EXCEPT !.state = "returned", !.payload = n]
    /\ UNCHANGED <<input, roundVars, poolVars, convVars>>

\* One pass of the while of __find_max_tickets_available inside
\* get_number_of_tickets_available: the search page is opened for
\* __num_passengers; no flight card, or the count down at 0, gives None and
\* SeatsNotAvailableError; a card that is not sold out ends the probe with
\* __num_passengers.
QuotaProbe ==
    /\ input.function = "get_number_of_tickets_available"
    /\ output.state = "called"
    /\ LET n == output.num_passengers
           o == [output EXCEPT !.opened = Append(@, n)]
       IN output' =
            IF ~input.listed
            THEN [o EXCEPT !.state = "raised", !.error = "SeatsNotAvailableError"]
            ELSE IF n \notin input.on_sale
            THEN IF n - 1 > 0
                 THEN [o EXCEPT !.num_passengers = n - 1]
                 ELSE [o EXCEPT !.num_passengers = 0, !.state = "raised",
                                !.error = "SeatsNotAvailableError"]
            ELSE [o EXCEPT !.state = "returned", !.payload = n]
    /\ UNCHANGED <<input, roundVars, poolVars, convVars>>

\* The seat lists a keyboard is laid out for: distinct seat ids, none at all
\* for a flight without a free seat.
KeyboardSeatLists ==
    {s \in UNION {[1..n -> 1..MaxSeatMap] : n \in 0..MaxSeatMap} :
        IsInjective(s)}

\* min(max_rows, num_seats)
Min(a, b) == IF a <= b THEN a ELSE b

\* seats_per_row: math.ceil(num_seats / rows) for each of the rows, then one
\* taken off each of the last total_seats - num_seats rows.
SeatsPerRow(num_seats, rows) ==
    LET total_seats == CeilDiv(num_seats, rows) * rows
        excess == IF total_seats > num_seats THEN total_seats - num_seats ELSE 0
    IN [i \in 1..rows |->
          IF i > rows - excess THEN CeilDiv(num_seats, rows) - 1
          ELSE CeilDiv(num_seats, rows)]

\* for count in seats_per_row: seats[start_index : start_index + count]
RECURSIVE SplitRows(_, _)
SplitRows(seats, counts) ==
    IF counts = <<>> THEN <<>>
    ELSE LET count == Min(Head(counts), Len(seats))
         IN <<SubSeq(seats, 1, count)>>
               \o SplitRows(SubSeq(seats, count + 1, Len(seats)), Tail(counts))

\* divide_seats_evenly(seats, max_rows): rows is 0 for an empty list and the
\* division by it raises ZeroDivisionError.
divide_seats_evenly(seats, max_rows) ==
    LET num_seats == Len(seats)
        rows == Min(max_rows, num_seats)
    IN IF rows = 0 THEN CallRaised("ZeroDivisionError", <<>>)
       ELSE CallReturned(SplitRows(seats, SeatsPerRow(num_seats, rows)))

\* One call of divide_seats_evenly.
DivideSeats ==
    /\ input.function = "divide_seats_evenly"
    /\ output.state = "called"
    /\ output' = divide_seats_evenly(input.seats, input.max_rows)
    /\ UNCHANGED <<input, roundVars, poolVars, convVars>>

\* What one call of the function retry_async wraps ends with: it returns, or
\* raises an exception of the classes the decorator was given, or another one.
WrappedOutcomes ==
    {"ok", "RyanairScriptError", "SeatSelectionError", "TimeoutException"}

\* The wrapper of retry_async as it is called: delay = initial_delay, the for
\* loop before its first pass.
RetryCalled ==
    [state |-> "called", error |-> "none", payload |-> 0, attempt |-> 0,
     delay |-> input.initial_delay, calls |-> 0, slept |-> <<>>,
     errors |-> <<>>]

\* A wrapper that adds the factor to the delay.
RetryAttempt_add ==
    /\ input.function = "retry_async"
    /\ output.state = "called"
    /\ IF output.attempt >= input.max_attempts
       THEN output' = [output EXCEPT !.state = "returned"]
       ELSE \E outcome \in WrappedOutcomes :
              LET o == [output EXCEPT
                            !.calls = @ + 1,
                            !.errors = IF outcome = "ok" THEN @
                                       ELSE Append(@, outcome)]
              IN output' =
                   IF outcome = "ok"
                   THEN [o EXCEPT !.state = "returned", !.payload = 1]
                   ELSE IF outcome \notin RetryExceptions
                   THEN [o EXCEPT !.state = "raised", !.error = outcome]
                   ELSE IF output.attempt < input.max_attempts - 1
                   THEN [o EXCEPT !.slept = Append(@, output.delay),
                                  !.delay = @ + input.backoff_factor,
                                  !.attempt = @ + 1]
                   ELSE [o EXCEPT !.state = "raised", !.error = outcome]
    /\ UNCHANGED <<input, roundVars, poolVars, convVars>>

\* A wrapper that sleeps after its last pass too, and so runs out of passes.
RetryAttempt_sleep ==
    /\ input.function = "retry_async"
    /\ output.state = "called"
    /\ IF output.attempt >= input.max_attempts
       THEN output' = [output EXCEPT !.state = "returned"]
       ELSE \E outcome \in WrappedOutcomes :
              LET o == [output EXCEPT
                            !.calls = @ + 1,
                            !.errors = IF outcome = "ok" THEN @
                                       ELSE Append(@, outcome)]
              IN output' =
                   IF outcome = "ok"
                   THEN [o EXCEPT !.state = "returned", !.payload = 1]
                   ELSE IF outcome \notin RetryExceptions
                   THEN [o EXCEPT !.state = "raised", !.error = outcome]
                   ELSE IF output.attempt < input.max_attempts
                   THEN [o EXCEPT !.slept = Append(@, output.delay),
                                  !.delay = @ * input.backoff_factor,
                                  !.attempt = @ + 1]
                   ELSE [o EXCEPT !.state = "raised", !.error = outcome]
    /\ UNCHANGED <<input, roundVars, poolVars, convVars>>

\* One pass of "for attempt in range(max_attempts)": the wrapped function is
\* called; it returns, or raises a listed exception and the wrapper sleeps
\* for delay and multiplies it (re-raises in the last pass), or raises another
\* exception, which no except clause holds back. range(0) has no pass: the
\* wrapper returns None.
RetryAttempt ==
    /\ input.function = "retry_async"
    /\ output.state = "called"
    /\ IF output.attempt >= input.max_attempts
       THEN output' = [output EXCEPT !.state = "returned"]
       ELSE \E outcome \in WrappedOutcomes :
              LET o == [output EXCEPT
                            !.calls = @ + 1,
                            !.errors = IF outcome = "ok" THEN @
                                       ELSE Append(@, outcome)]
              IN output' =
                   IF outcome = "ok"
                   THEN [o EXCEPT !.state = "returned", !.payload = 1]
                   ELSE IF outcome \notin RetryExceptions
                   THEN [o EXCEPT !.state = "raised", !.error = outcome]
                   ELSE IF output.attempt < input.max_attempts - 1
                   THEN [o EXCEPT !.slept = Append(@, output.delay),
                                  !.delay = @ * input.backoff_factor,
                                  !.attempt = @ + 1]
                   ELSE [o EXCEPT !.state = "raised", !.error = outcome]
    /\ UNCHANGED <<input, roundVars, poolVars, convVars>>

\* ---------------------------------------------------- the specifications
InitRound ==
    /\ seats_to_reserve \in Selections(available_seats)
    /\ pc = "start"
    /\ probe_driver = "none"
    /\ probe_calls = 0
    /\ probe_error = "none"
    /\ available_tickets = 0
    /\ auth_requests = 0
    /\ list_requests = 0
    /\ tasks = <<>>
    /\ message = "reserving_seats"
    /\ raised = "none"
    /\ proxy_inits = 0
    /\ conv_state = "SEATS_SELECTION"
    /\ user_data = [origin |-> "DUB", destination |-> "STN", time |-> "06:30",
                    available_seats |-> available_seats,
                    selected_seats |-> seats_to_reserve]
    /\ NoCall
    /\ PoolNotUsed

Init ==
    /\ available_seats \in OrderedSeatLists
    /\ InitRound

Next ==
    \/ StartReservation
    \/ ProbeReturns
    \/ ProbeFails
    \/ ProbeCrashes
    \/ BuildBatches
    \/ \E b \in DOMAIN tasks : BeginAttempt(b)
    \/ \E b \in DOMAIN tasks : EndAttempt(b)
    \/ GatherReturns
    \/ GatherRaises

Spec == Init /\ [][Next]_vars

\* The batching alone, over every order the seat map can list the seats in.
InitBatching ==
    /\ available_seats \in SeatLists
    /\ InitRound

NextBatching ==
    \/ StartReservation
    \/ ProbeReturns
    \/ ProbeFails
    \/ ProbeCrashes
    \/ BuildBatches

SpecBatching == InitBatching /\ [][NextBatching]_vars

\* The pool alone: calls of refresh() and get(), one after the other; every
\* refresh is answered with whatever the provider lists by then, and the
\* reachability of the addresses changes.
InitPool ==
    /\ RoundNotRunning
    /\ NoConversation
    /\ NoCall
    /\ PoolEmpty
    /\ reachable \in SUBSET Addresses

NextPool ==
    \/ \E c \in Callers : Refresh(c)
    \/ \E c \in Callers : GetBegins(c)
    \/ \E c \in Callers : Select(c)
    \/ \E c \in Callers : Stamp(c)
    \/ \E c \in Callers : GetReturns(c)
    \/ \E c \in Callers : GetEvicts(c)
    \/ NetworkChanges

SpecPool == InitPool /\ [][NextPool]_vars

\* get() called from two threads at once, on a network that does not change
\* meanwhile: the statements of the two calls interleave in every order.
NextPoolThreads ==
    \/ \E c \in Threads : GetBegins(c)
    \/ \E c \in Threads : Select(c)
    \/ \E c \in Threads : Stamp(c)
    \/ \E c \in Threads : GetReturns(c)
    \/ \E c \in Threads : GetEvicts(c)

SpecPoolThreads == InitPool /\ [][NextPoolThreads]_vars

\* The bot from its start: the chat's conversation, and the rounds of
\* start_reservation that "done" sets off.
InitConversation ==
    /\ RoundNotRunning
    /\ NoConversation
    /\ PoolNotUsed
    /\ NoCall

NextConversation ==
    \/ reserve_seat_start
    \/ \E text \in AirportTexts : get_flight_origin(text)
    \/ \E text \in AirportTexts : get_flight_destination(text)
    \/ \E text \in TimeTexts, outcome \in LookupOutcomes, seats \in SeatsShown :
          get_flight_time(text, outcome, seats)
    \/ \E data \in SeatButtons : get_flight_seat(data)
    \/ cancel
    \/ Next

SpecConversation == InitConversation /\ [][NextConversation]_vars

\* reserve_seats alone, on every batch and every seat map.
InitReserveSeats ==
    /\ RoundNotRunning
    /\ NoConversation
    /\ PoolNotUsed
    /\ input \in [function : {"reserve_seats"}, seats : SeatIdLists \ {<<>>},
                   page : SearchPages, seatmap : SeatIdLists,
                   rest : SelectOutcomes, gone : 0..MaxSeats]
    /\ output = [state |-> "called", error |-> "none", payload |-> <<>>,
                 selected |-> <<>>]

SpecReserveSeats == InitReserveSeats /\ [][ReserveSeats]_vars

\* divide_seats_evenly alone, on every seat list and every number of rows.
InitDivideSeats ==
    /\ RoundNotRunning
    /\ NoConversation
    /\ PoolNotUsed
    /\ input \in [function : {"divide_seats_evenly"}, seats : KeyboardSeatLists,
                   max_rows : 1..MaxRowsArg]
    /\ output = [state |-> "called", error |-> "none", payload |-> <<>>]

SpecDivideSeats == InitDivideSeats /\ [][DivideSeats]_vars

\* retry_async alone, for every small policy and every way the wrapped
\* function can end each time it is called.
InitRetry ==
    /\ RoundNotRunning
    /\ NoConversation
    /\ PoolNotUsed
    /\ input \in [function : {"retry_async"}, max_attempts : 0..MaxAttemptsArg,
                   initial_delay : 1..MaxDelay, backoff_factor : 1..MaxFactor]
    /\ output = RetryCalled

SpecRetry == InitRetry /\ [][RetryAttempt]_vars

\* The quota probe alone: listed, the search pages show the flight's card;
\* on_sale, the passenger counts for which the card is not sold out.
InitQuotaProbe ==
    /\ RoundNotRunning
    /\ NoConversation
    /\ PoolNotUsed
    /\ input \in [function : {"get_number_of_tickets_available"},
                   listed : BOOLEAN, on_sale : SUBSET (1..NumPassengers)]
    /\ output = QuotaProbeCalled

SpecQuotaProbe == InitQuotaProbe /\ [][QuotaProbe]_vars


\* ============================================================ the claims
\* The work queue W: the available seats the caller did not pick, in the order
\* of the available list.
WorkQueue ==
    SelectSeq(available_seats, LAMBDA x : x \notin Range(seats_to_reserve))

BatchSeats(b) == Range(tasks[b].seats)

AllBatchSeats == UNION {BatchSeats(b) : b \in DOMAIN tasks}

\* The batch loop ran to its end: gather is awaited, or was.
BatchesBuilt ==
    \/ pc = "gather"
    \/ tasks # <<>> /\ \A b \in DOMAIN tasks : tasks[b].state # "created"

\* C1: once the batch loop has run to its end for a non-empty work queue W and
\* a quota Q > 0, the batches number ceil(|W|/Q) (the least n with n*Q >= |W|),
\* are pairwise disjoint, cover W, hold at most Q seats each, follow the order
\* of W, and are the slices of W that W and Q alone determine.
C1_BatchPartition ==
    (BatchesBuilt /\ WorkQueue # <<>> /\ available_tickets > 0) =>
        LET W == WorkQueue
            Q == available_tickets
            n == Len(tasks)
        IN /\ n * Q >= Len(W) /\ (n - 1) * Q < Len(W)
           /\ \A b \in 1..n : Len(tasks[b].seats) <= Q
           /\ \A b, c \in 1..n : b # c => BatchSeats(b) \cap BatchSeats(c) = {}
           /\ AllBatchSeats = Range(W)
           /\ \A b, c \in 1..n : b < c =>
                \A x \in BatchSeats(b), y \in BatchSeats(c) :
                    IndexOf(W, x) < IndexOf(W, y)
           /\ \A b \in 1..n :
                tasks[b].seats = SubSeq(W, (b - 1) * Q + 1, Min(b * Q, Len(W)))

\* Three seats left in an order that is not ascending, cut into two batches.
C1_Witness ==
    /\ pc = "gather"
    /\ Len(WorkQueue) = 3
    /\ WorkQueue[1] > WorkQueue[2]
    /\ available_tickets = 2
    /\ Len(tasks) = 2
    /\ Len(tasks[2].seats) = 1

\* C2: no seat the caller picked is in any batch, at any time, so none reaches a
\* reservation attempt; no seat is in two batches or twice in one; and once the
\* batch loop has run to its end the batches hold exactly the available seats
\* that were not picked.
C2_ExcludedSeats ==
    /\ \A b \in DOMAIN tasks :
          /\ BatchSeats(b) \cap Range(seats_to_reserve) = {}
          /\ BatchSeats(b) \subseteq Range(available_seats)
          /\ IsInjective(tasks[b].seats)
    /\ \A b, c \in DOMAIN tasks :
          b # c => BatchSeats(b) \cap BatchSeats(c) = {}
    /\ BatchesBuilt =>
          AllBatchSeats = Range(available_seats) \ Range(seats_to_reserve)

\* A picked seat, two batches, one of them in a reservation attempt.
C2_Witness ==
    /\ seats_to_reserve = <<2>>
    /\ Len(tasks) = 2
    /\ tasks[1].state = "reserving"
    /\ tasks[2].state = "Reserved"


\* What the caller is told. reservation_complete says every seat of the work
\* queue is held; no message and no return value names a seat that was not.
ReportedAcquired ==
    IF message = "reservation_complete" THEN AllBatchSeats ELSE {}

ReportedAbandoned == {}

SeatsOf(states) ==
    UNION {BatchSeats(b) : b \in {c \in DOMAIN tasks : tasks[c].state \in states}}

\* start_reservation has returned or raised.
RoundOver == pc \in {"ended", "raised"}

\* No batch was ended by an exception the retry policy does not list.
NoneCrashed == \A b \in DOMAIN tasks : tasks[b].state # "Crashed"

\* C3: the round is over only when no batch is still attempting or waiting to
\* retry (stated for the rounds whose failures are all retryable ones).
C3_Barrier ==
    (RoundOver /\ NoneCrashed) =>
        \A b \in DOMAIN tasks : tasks[b].state \notin InFlight

\* A step of batch t's own wrapper from t to u: the next call of the wrapped
\* function, or the end of the call in flight.
OwnStep(t, u) ==
    /\ u.seats = t.seats
    /\ u.proxy = t.proxy
    /\ \/ /\ t.state \in {"scheduled", "sleeping"}
          /\ u.state = "reserving"
          /\ u.attempt = t.attempt + 1
       \/ /\ t.state = "reserving"
          /\ u.state \in {"Reserved", "sleeping", "Abandoned", "Crashed"}
          /\ u.attempt = t.attempt

C4_CanProceed ==
    \A b \in DOMAIN tasks :
        /\ tasks[b].state \in {"scheduled", "sleeping"} => ENABLED BeginAttempt(b)
        /\ tasks[b].state = "reserving" =>
              \A o \in ReserveOutcomes : ENABLED EndAttemptWith(b, o)

C4_OnlyOwnSteps ==
    \A b \in DOMAIN tasks :
        tasks'[b] # tasks[b] =>
            /\ OwnStep(tasks[b], tasks'[b])
            /\ \A c \in DOMAIN tasks : c # b => tasks'[c] = tasks[c]

\* C4: whatever its siblings did and whether or not the round has raised, a
\* batch that has not ended can take its next step with every outcome open to
\* it; a batch changes only by a step of its own wrapper, and such a step
\* changes no sibling.
C4_SiblingsIndependent == []C4_CanProceed /\ [][C4_OnlyOwnSteps]_vars

\* Batch 1 was abandoned, the round has raised, batch 2 went on to reserve its
\* seats at its third attempt.
C4_Witness ==
    /\ pc = "raised"
    /\ Len(tasks) = 2
    /\ tasks[1].state = "Abandoned"
    /\ tasks[2].state = "Reserved"
    /\ tasks[2].attempt = max_attempts

C5_Bounded ==
    \A b \in DOMAIN tasks :
        /\ tasks[b].attempt <= max_attempts
        /\ tasks[b].state = "sleeping" =>
              tasks[b].attempt < max_attempts /\ ENABLED BeginAttempt(b)
        /\ tasks[b].state = "Abandoned" =>
              /\ tasks[b].attempt = max_attempts
              /\ tasks[b].error \in RetryExceptions
              /\ BatchSeats(b) \cap ReportedAcquired = {}

C5_RetryStep ==
    \A b \in DOMAIN tasks :
        LET t == tasks[b]
            u == tasks'[b]
        IN /\ t.state \in {"Reserved", "Abandoned"} => u = t
           /\ (t.state = "sleeping" /\ u # t) =>
                 u.state = "reserving" /\ u.attempt = t.attempt + 1
           /\ (t.state = "reserving" /\ u.state \in Failed
                 /\ t.attempt < max_attempts) => u.error \notin RetryExceptions
           /\ (t.state = "reserving" /\ u.state = "sleeping") =>
                 t.attempt < max_attempts

C6_FreshProxyPerAttempt ==
    \A b \in DOMAIN tasks :
        /\ tasks[b].attempt <= tasks[b].proxy_gets
        /\ tasks[b].state = "reserving" => tasks[b].driver = tasks[b].attempt

\* The proxy supply ran out while the batches were being given their proxies.
ProxyExhausted == raised = "IndexError"

\* C7: running out of proxies does not abort the round: the batches that were
\* built are run, and start_reservation is not left by the exhaustion error.
C7_ExhaustionIsBatchFailure ==
    ProxyExhausted =>
        /\ pc # "raised"
        /\ \A b \in DOMAIN tasks : tasks[b].state # "created"

\* C8: when a round is over and each of its batches is Reserved or Abandoned,
\* the caller has been told of exactly the seats of the Reserved batches as
\* acquired and exactly the seats of the Abandoned batches as abandoned, the
\* two sets disjoint and together the work queue.
C8_StructuredResult ==
    (/\ RoundOver
     /\ BatchesBuilt
     /\ \A b \in DOMAIN tasks : tasks[b].state \in {"Reserved", "Abandoned"}) =>
        /\ ReportedAcquired = SeatsOf({"Reserved"})
        /\ ReportedAbandoned = SeatsOf({"Abandoned"})
        /\ ReportedAcquired \cap ReportedAbandoned = {}
        /\ ReportedAcquired \cup ReportedAbandoned = Range(WorkQueue)

\* The probe failed with an error the handler names.
ProbeFailed == message \in {"flight_info_changed", "something_wrong"}

\* C9: once the probe has failed with FlightNotFound, FlightSoldOut,
\* SeatsNotAvailable or ScriptError the round has ended: the probe ran once, no
\* batch exists, no proxy listing was requested, no exception was raised and
\* the probe's driver is quit.
C9_ProbeFatal ==
    ProbeFailed =>
        /\ pc = "ended"
        /\ probe_calls = 1
        /\ tasks = <<>>
        /\ list_requests = 0
        /\ raised = "none"
        /\ probe_driver = "quit"

\* The probe found no passenger count that is not sold out.
C9_Witness ==
    /\ message = "flight_info_changed"
    /\ pc = "ended"
    /\ available_tickets = 0

\* C10: a round whose work queue is empty ends with the reservation reported
\* complete, no batch, and no request to the proxy provider.
C10_EmptyQueue ==
    (WorkQueue = <<>> /\ available_tickets > 0 /\ pc \in {"gather", "ended"}) =>
        /\ tasks = <<>>
        /\ auth_requests = 0
        /\ list_requests = 0
        /\ pc = "ended" => message = "reservation_complete"

\* C11: a probe that finds no passenger count on sale (quota 0) raises
\* SeatsNotAvailableError, and the round then ends at once with the
\* flight_info_changed message, no batch and no exception; whenever the probe
\* has returned, the quota the batches are cut with is at least 1.
C11_ZeroQuota ==
    /\ \A listed \in BOOLEAN :
          get_number_of_tickets_available(listed, 0, "none").error
              = "SeatsNotAvailableError"
    /\ probe_error = "SeatsNotAvailableError" =>
          /\ pc = "ended"
          /\ message = "flight_info_changed"
          /\ probe_calls = 1
          /\ available_tickets = 0
          /\ tasks = <<>>
          /\ list_requests = 0
          /\ raised = "none"
    /\ (pc \in {"batching", "gather"} \/ tasks # <<>>) =>
          available_tickets \in 1..NumPassengers

\* The probe raised SeatsNotAvailableError and the round is over.
C11_Witness ==
    /\ probe_error = "SeatsNotAvailableError"
    /\ pc = "ended"
    /\ probe_driver = "quit"

\* The address a caller has selected and not yet stamped.
Selected(c) == call[c].pc = "stamp"

\* C12: the address a selection of get() picks is tracked and no tracked
\* address has a smaller time of last use; while a never-used address is
\* tracked, the address picked is a never-used one.
C12_LeastRecentlyUsed ==
    \A c \in Callers :
        Selected(c) =>
            /\ call[c].proxy \in Tracked(proxy_store)
            /\ \A q \in Tracked(proxy_store) :
                  LastUsed(proxy_store, call[c].proxy) <= LastUsed(proxy_store, q)
            /\ (\E q \in Tracked(proxy_store) : LastUsed(proxy_store, q) = 0) =>
                  LastUsed(proxy_store, call[c].proxy) = 0

\* The first entry of the store was used before, the second never: the
\* second is picked.
C12_Witness ==
    \E c \in Callers :
        /\ Selected(c)
        /\ Len(proxy_store) = 2
        /\ proxy_store[1].last_used > 0
        /\ proxy_store[2].last_used = 0
        /\ call[c].proxy = proxy_store[2].proxy

\* The tracked addresses that answer and that get() has not handed out: it
\* has not returned them since they were added, and the get() before did not.
ReachableNotHandedOut ==
    (Tracked(proxy_store) \cap reachable) \ (handed_out \cup {last_got})

\* get() returns an address to caller c in this step.
GetReturnsStep(c) ==
    /\ call[c].pc = "probe"
    /\ call'[c].pc = "idle"
    /\ call'[c].error = "none"
    /\ call'[c].result # 0

\* C13 as stated: a get() does not return the address the get() before it
\* returned while two or more reachable addresses that were not handed out are
\* tracked.
C13_NeverSameTwice ==
    [][\A c \in Callers :
          (GetReturnsStep(c) /\ Cardinality(ReachableNotHandedOut) >= 2) =>
              call'[c].result # last_got]_vars

\* C13 amended: the same, for an address that has stayed in the store since
\* the first of the two calls returned it.
C13_NeverSameTwiceWhileTracked ==
    [][\A c \in Callers :
          (/\ GetReturnsStep(c)
           /\ Cardinality(ReachableNotHandedOut) >= 2
           /\ last_got_kept) =>
              call'[c].result # last_got]_vars

\* The get() before returned an address that is still tracked; this get() has
\* another, reachable one in hand while two that were not handed out remain.
C13_Witness ==
    \E c \in Callers :
        /\ call[c].pc = "probe"
        /\ last_got # 0
        /\ last_got_kept
        /\ call[c].proxy # last_got
        /\ call[c].proxy \in reachable
        /\ Cardinality(ReachableNotHandedOut) >= 2

\* The probe of the address caller c has in hand fails in this step.
ProbeFailsStep(c) ==
    /\ call[c].pc = "probe"
    /\ call[c].proxy \notin reachable
    /\ call'[c] # call[c]

C14_Step ==
    \A c \in Callers :
        /\ ProbeFailsStep(c) =>
              /\ Tracked(proxy_store') = Tracked(proxy_store) \ {call[c].proxy}
              /\ \A q \in Tracked(proxy_store') :
                    LastUsed(proxy_store', q) = LastUsed(proxy_store, q)
              /\ call'[c].pc = "select"
              /\ call'[c].result = 0
        /\ GetReturnsStep(c) =>
              /\ call'[c].result = call[c].proxy
              /\ call[c].proxy \in reachable
        /\ call[c].pc \in {"select", "stamp", "probe"} =>
              Tracked(proxy_store') \subseteq Tracked(proxy_store)

\* C14: the step in which a probe fails removes that address and nothing else
\* from the store and goes back to the selection; the address get() returns is
\* the one whose probe passed in the returning step; between the selection
\* and the return no address enters the store, so an address that failed its
\* probe is not there to be selected again; an entry is an address and a time
\* of last use, nothing that marks it dead.
C14_EvictOnFailedProbe ==
    /\ [][C14_Step]_vars
    /\ [](\A i \in DOMAIN proxy_store :
             DOMAIN proxy_store[i] = {"proxy", "last_used"})

\* A get() whose first address failed its probe and is gone from the store,
\* and whose second was returned.
C14_Witness ==
    \E c \in Callers :
        /\ call[c].pc = "idle"
        /\ call[c].op = "get"
        /\ call[c].result # 0
        /\ now = 2
        /\ Cardinality(snapshot) = Len(proxy_store) + 1
        /\ \A q \in Tracked(proxy_store) :
              LastUsed(proxy_store, q) = IF q = call[c].result THEN 2 ELSE 0

\* C15: a get() that ends without an exception has returned an address (one
\* that is reachable and tracked).
C15_ResourceExhausted ==
    \A c \in Callers :
        (call[c].pc = "idle" /\ call[c].op = "get" /\ call[c].error = "none") =>
            call[c].result \in Addresses

\* The address caller c has in hand was stamped and is not yet returned.
Stamped(c) == call[c].pc = "probe"

\* get() has returned to caller c and no call was made since.
Returned(c) ==
    /\ call[c].pc = "idle"
    /\ call[c].op = "get"
    /\ call[c].result # 0

\* p is tracked, was used, and no tracked address was used later.
LatestUsed(p) ==
    /\ p \in Tracked(proxy_store)
    /\ LastUsed(proxy_store, p) > 0
    /\ \A q \in Tracked(proxy_store) :
          LastUsed(proxy_store, q) <= LastUsed(proxy_store, p)

\* C16: while the selected address is probed and when it has been returned,
\* its time of last use is above 0 and no tracked address has a later one; the
\* next selection does not pick it while it has stayed in the store and
\* another address is tracked.
C16_StampBeforeProbe ==
    \A c \in Callers :
        /\ Stamped(c) => LatestUsed(call[c].proxy)
        /\ Returned(c) => LatestUsed(call[c].result)
        /\ (Selected(c) /\ last_got_kept /\ Tracked(proxy_store) # {last_got}) =>
              call[c].proxy # last_got

\* An address is probed that was stamped after another, used one.
C16_Witness ==
    \E c \in Callers :
        /\ Stamped(c)
        /\ \E q \in Tracked(proxy_store) \ {call[c].proxy} :
              /\ LastUsed(proxy_store, q) > 0
              /\ LastUsed(proxy_store, q) < LastUsed(proxy_store, call[c].proxy)

\* refresh() has returned to caller c and no call was made since.
Refreshed(c) ==
    /\ call[c].pc = "idle"
    /\ call[c].op = "refresh"
    /\ call[c].error = "none"

\* C17: the tracked addresses are always among those of the listing fetched
\* last; when refresh() has returned they are exactly those, so an address the
\* listing dropped is gone, be it the one get() returned last.
C17_TrackedWithinSnapshot ==
    /\ Tracked(proxy_store) \subseteq snapshot
    /\ \A c \in Callers : Refreshed(c) => Tracked(proxy_store) = snapshot

\* refresh() removed the address the last get() returned and kept another.
C17_Witness ==
    \E c \in Callers :
        /\ Refreshed(c)
        /\ last_got # 0
        /\ last_got \notin snapshot
        /\ last_got \notin Tracked(proxy_store)
        /\ proxy_store # <<>>

\* C18: a step of a caller that is in no call (a refresh(), or the refresh at
\* the start of get()) leaves every address it keeps with the time of last use
\* it had and gives every address it adds the time 0.
C18_RefreshFrame ==
    [][\A c \in Callers :
          call[c].pc = "idle" =>
              \A q \in Tracked(proxy_store') :
                  LastUsed(proxy_store', q) =
                      IF q \in Tracked(proxy_store)
                      THEN LastUsed(proxy_store, q) ELSE 0]_vars

\* refresh() added an address to a store that holds a used one.
C18_Witness ==
    \E c \in Callers :
        /\ Refreshed(c)
        /\ call[c].added > 0
        /\ \E q \in Tracked(proxy_store) : LastUsed(proxy_store, q) > 0
        /\ \E q \in Tracked(proxy_store) : LastUsed(proxy_store, q) = 0

\* C19: a refresh() that follows a refresh() and fetches the listing that one
\* fetched leaves the store as it is: the same entries, each with the same
\* time of last use.
C19_RefreshIdempotent ==
    [][\A c \in Callers :
          (/\ Refreshed(c)
           /\ call'[c].op = "refresh"
           /\ call'[c].pc = "idle"
           /\ call'[c].error = "none"
           /\ snapshot' = snapshot) =>
              proxy_store' = proxy_store]_vars

\* The second of two refreshes with one listing has returned; the store holds
\* a used and a never-used address.
C19_Witness ==
    \E c \in Callers :
        /\ Refreshed(c)
        /\ call[c].again
        /\ \E q \in Tracked(proxy_store) : LastUsed(proxy_store, q) > 0
        /\ \E q \in Tracked(proxy_store) : LastUsed(proxy_store, q) = 0

\* C20: a refresh() that cannot reach the provider ends with the connection
\* error and leaves the store and the listing it rests on as they were.
C20_FailedRefreshKeepsPool ==
    [][\A c \in Callers :
          (/\ call[c].pc = "idle"
           /\ call'[c].pc = "idle"
           /\ call'[c].error = "ConnectionError") =>
              /\ proxy_store' = proxy_store
              /\ snapshot' = snapshot]_vars

\* refresh() failed on a store that holds a used and a never-used address.
C20_Witness ==
    \E c \in Callers :
        /\ call[c].pc = "idle"
        /\ call[c].op = "refresh"
        /\ call[c].error = "ConnectionError"
        /\ \E q \in Tracked(proxy_store) : LastUsed(proxy_store, q) > 0
        /\ \E q \in Tracked(proxy_store) : LastUsed(proxy_store, q) = 0

\* Caller c holds the selection of get(): it has read the least recently used
\* address and has not yet written its time of last use.
Selecting(c) == call[c].pc = "stamp"

\* C21: the selection and the stamp of one get() are one step under a lock of
\* the pool, so no two callers are between their selection and their stamp at
\* once; the probe is outside the lock, so a caller at its selection can make
\* it while another caller's probe is in flight.
C21_LockDiscipline ==
    \A c, d \in Threads :
        c # d =>
            /\ ~(Selecting(c) /\ Selecting(d))
            /\ (call[c].pc = "probe" /\ call[d].pc = "select") =>
                   ENABLED Select(d)

\* C22: while a caller is between its selection and its stamp and the address
\* it selected is still the least recently used, another caller at its own
\* selection can select that same address.
C22_SameAddressRace ==
    \A c, d \in Threads :
        (/\ c # d
         /\ Selecting(c)
         /\ call[d].pc = "select"
         /\ proxy_store # <<>>
         /\ call[c].proxy = min_last_used(proxy_store)) =>
            ENABLED (Select(d) /\ call'[d].proxy = call[c].proxy)

\* Two calls of get() made at once have both returned the same address, while
\* the store tracks an address that no call has used yet.
C22_Witness ==
    /\ \A c \in Threads :
          /\ call[c].pc = "idle"
          /\ call[c].op = "get"
          /\ call[c].result # 0
    /\ call[1].result = call[2].result
    /\ now = 2
    /\ \E q \in Tracked(proxy_store) : LastUsed(proxy_store, q) = 0

\* C23: when the round is over no browser session is open: the probe's driver
\* has been quit and no batch holds a driver.
C23_EverySessionClosed ==
    RoundOver =>
        /\ probe_driver # "open"
        /\ \A b \in DOMAIN tasks : tasks[b].driver = 0

\* C24: once the seat map is read, reserve_seats raises SeatSelectionError
\* exactly when a requested seat is not among the available ones, and the
\* error carries exactly the requested seats that are not available.
C24_SeatSelectionError ==
    (/\ input.function = "reserve_seats"
     /\ output.state # "called"
     /\ input.page = "flight") =>
        LET unavailable == Range(input.seats) \ Range(input.seatmap)
        IN /\ (output.error = "SeatSelectionError") <=> (unavailable # {})
           /\ output.error = "SeatSelectionError" =>
                  Range(output.payload) = unavailable

\* The largest element of a set of numbers that is not empty.
Largest(S) == CHOOSE x \in S : \A y \in S : y <= x

\* The quota probe of a flight the search pages list has ended.
QuotaProbeOver ==
    /\ input.function = "get_number_of_tickets_available"
    /\ input.listed
    /\ output.state # "called"

\* The probe opened the search page for the ceiling, then for one passenger
\* fewer each time, down to last.
CountedDownTo(last) ==
    output.opened = [i \in 1..(NumPassengers - last + 1) |-> NumPassengers + 1 - i]

\* C25 as the spec states it: the probe counts down from the ceiling to 1 and
\* returns the largest count that is not sold out, 0 when every count is; it
\* always returns an integer of 0..ceiling.
C25_QuotaOrZero ==
    QuotaProbeOver =>
        LET quota == IF input.on_sale = {} THEN 0 ELSE Largest(input.on_sale)
        IN /\ output.state = "returned"
           /\ output.payload = quota
           /\ output.payload \in 0..NumPassengers
           /\ CountedDownTo(IF quota = 0 THEN 1 ELSE quota)

\* C25 as the code has it: the probe counts down from the ceiling to 1 and
\* returns the largest count that is not sold out, an integer of 1..ceiling;
\* when every count is sold out it raises SeatsNotAvailableError and returns
\* nothing.
C25_QuotaOrSeatsNotAvailable ==
    QuotaProbeOver =>
        IF input.on_sale = {}
        THEN /\ output.state = "raised"
             /\ output.error = "SeatsNotAvailableError"
             /\ CountedDownTo(1)
        ELSE /\ output.state = "returned"
             /\ output.payload = Largest(input.on_sale)
             /\ output.payload \in 1..NumPassengers
             /\ CountedDownTo(output.payload)

\* The probe returned a count below the ceiling although a smaller count is
\* on sale too.
C25_Witness ==
    /\ QuotaProbeOver
    /\ output.state = "returned"
    /\ output.payload < NumPassengers
    /\ Cardinality(input.on_sale) > 1

\* C26: the exchange that authorizes the bot's address with the provider (the
\* requests of Proxy.__init__) is gone through at most once while the process,
\* and with it the store of the pool, lives.
C26_AuthorizedOnce == proxy_inits <= 1

RECURSIVE Pow(_, _)
Pow(b, e) == IF e = 0 THEN 1 ELSE b * Pow(b, e - 1)

\* C27: the k-th wait of the retry wrapper, the one before its k-th retry, is
\* initial_delay * backoff_factor^(k-1): the same wait every time for a factor
\* of 1, twice the wait before for a factor of 2.
C27_BackoffDelays ==
    input.function = "retry_async" =>
        \A k \in DOMAIN output.slept :
            output.slept[k] = input.initial_delay * Pow(input.backoff_factor, k - 1)

\* The wrapper has slept twice under a factor above 1, and the wrapped function
\* has been called a third time.
C27_Witness ==
    /\ input.function = "retry_async"
    /\ input.backoff_factor > 1
    /\ Len(output.slept) = 2
    /\ output.calls = 3

\* The stores that hold the entries of store, inserted in another order.
Reorderings(store) ==
    {[i \in DOMAIN store |-> store[f[i]]] : f \in Orders(DOMAIN store)}

\* C28: the address get() selects is settled by the addresses tracked and
\* their times of last use alone: a pool that holds the same entries, inserted
\* in whatever order, selects the same address.
C28_TieBreakDeterministic ==
    \A c \in Callers :
        Selected(c) =>
            \A other \in Reorderings(proxy_store) :
                min_last_used(other) = call[c].proxy

\* Every address store2 tracks is tracked by store1 with the same time of
\* last use, but for the address stamped, which may carry the time t.
OnlyStamped(store1, store2, stamped, t) ==
    /\ Tracked(store2) \subseteq Tracked(store1)
    /\ \A q \in Tracked(store2) :
          \/ LastUsed(store2, q) = LastUsed(store1, q)
          \/ q = stamped /\ LastUsed(store2, q) = t

\* C29: the store changes only in steps of refresh() and get(). A step in
\* which an address that a session may be using stops or starts answering
\* leaves it as it is; so does the return of get(), and nothing is handed back later;
\* a step inside get() adds no address and changes no time of last use but
\* that of the address it selected; addresses enter only in the step of a
\* caller that was in no call, a refresh().
C29_PoolFrame ==
    [][/\ reachable' # reachable => proxy_store' = proxy_store
       /\ \A c \in Callers :
             /\ (call[c].pc = "probe" /\ call'[c].pc = "idle"
                   /\ call'[c].error = "none") =>
                    proxy_store' = proxy_store
             /\ (call[c].pc # "idle" /\ call'[c] # call[c]) =>
                    OnlyStamped(proxy_store, proxy_store', call[c].proxy, now')
             /\ ~(Tracked(proxy_store') \subseteq Tracked(proxy_store)) =>
                    call[c].pc = "idle" /\ call'[c].op \in {"refresh", "get"}]_vars

\* get() has returned an address that has since stopped answering; the store
\* still tracks it with the time of its last use, next to a never-used one.
C29_Witness ==
    \E c \in Callers :
        /\ Returned(c)
        /\ call[c].result \in Tracked(proxy_store)
        /\ call[c].result \notin reachable
        /\ LastUsed(proxy_store, call[c].result) > 0
        /\ \E q \in Tracked(proxy_store) : LastUsed(proxy_store, q) = 0

\* start_reservation is over because a batch failed every one of its attempts.
BatchGaveUp ==
    /\ pc = "raised"
    /\ \E b \in DOMAIN tasks :
          /\ tasks[b].state = "Abandoned"
          /\ tasks[b].error = raised

\* C30: when the conversation is over, by /cancel, a failed seat lookup, a
\* single seat left, a failed quota probe, a finished reservation or a
\* reservation in which a batch failed all its attempts, the chat is in no
\* state and user_data holds no key.
C30_EndClearsContext ==
    (conv_state = "END" \/ BatchGaveUp) =>
        /\ conv_state = "END"
        /\ user_data = NoData

\* The rows of a layout, one after the other.
RECURSIVE Concat(_)
Concat(rows) == IF rows = <<>> THEN <<>> ELSE Head(rows) \o Concat(Tail(rows))

\* C31: divide_seats_evenly returns, for every seat list and the empty one
\* too, min(max_rows, len(seats)) rows that put end to end give the list, none
\* of them empty, with sizes that differ by at most 1.
C31_EvenRows ==
    (input.function = "divide_seats_evenly" /\ output.state # "called") =>
        /\ output.state = "returned"
        /\ LET layout == output.payload
           IN /\ Concat(layout) = input.seats
              /\ Len(layout) = Min(input.max_rows, Len(input.seats))
              /\ \A i \in DOMAIN layout : layout[i] # <<>>
              /\ \A i, j \in DOMAIN layout : Len(layout[i]) - Len(layout[j]) <= 1


\* C32: an attempt that ends with an exception the decorator does not list
\* ends the batch at once: the error goes to the caller, the wrapper neither
\* sleeps nor calls again, and the driver of that attempt has been quit.
C32_OtherErrorsPropagate ==
    [][\A b \in DOMAIN tasks :
         /\ \A outcome \in ReserveOutcomes \ (RetryExceptions \cup {"ok"}) :
              EndAttemptWith(b, outcome) =>
                  /\ tasks'[b].state = "Crashed"
                  /\ tasks'[b].error = outcome
                  /\ tasks'[b].attempt = tasks[b].attempt
                  /\ tasks'[b].driver = 0
         /\ (tasks[b].state = "Crashed" /\ b \in DOMAIN tasks') =>
              tasks'[b] = tasks[b]]_vars

C32_Witness ==
    \E b \in DOMAIN tasks :
        /\ tasks[b].state = "Crashed"
        /\ tasks[b].error \notin RetryExceptions
        /\ tasks[b].attempt = 2
        /\ tasks[b].driver = 0
        /\ pc = "raised"


\* Every call the wrapper made of the wrapped function raised a listed error.
EveryAttemptFailed ==
    /\ Len(output.errors) = output.calls
    /\ \A k \in DOMAIN output.errors : output.errors[k] \in RetryExceptions

\* C33: when max_attempts >= 1 and every attempt raised a listed error, the
\* wrapper called the function max_attempts times, slept max_attempts - 1
\* times, and raised the error of the last attempt.
C33_AllAttemptsFail ==
    (/\ input.function = "retry_async"
     /\ input.max_attempts >= 1
     /\ output.state # "called"
     /\ EveryAttemptFailed) =>
        /\ output.state = "raised"
        /\ output.calls = input.max_attempts
        /\ Len(output.slept) = input.max_attempts - 1
        /\ output.error = output.errors[Len(output.errors)]

\* Three attempts, the last of which raised another listed error than the one
\* before it.
C33_Witness ==
    /\ input.function = "retry_async"
    /\ input.max_attempts = 3
    /\ output.state = "raised"
    /\ EveryAttemptFailed
    /\ output.errors = <<"RyanairScriptError", "RyanairScriptError", "SeatSelectionError">>
    /\ Len(output.slept) = 2


\* C34: with one caller at a time, every pass of the loop of get() returns the
\* address it selected or removes it from the store: the probes made so far
\* and the addresses still tracked add up to the addresses the loop started
\* with, so a call makes no more probes than that, and the address a call
\* returns is tracked when it returns.
C34_GetLoopBounded ==
    \A c \in Callers :
        /\ call[c].pc \in {"select", "stamp"} =>
              call[c].probes + Len(proxy_store) = call[c].size
        /\ call[c].pc = "probe" =>
              /\ call[c].probes + Len(proxy_store) = call[c].size + 1
              /\ call[c].probes <= call[c].size
        /\ Returned(c) => call[c].result \in Tracked(proxy_store)

\* The loop started with two addresses, evicted the first it probed and is
\* at its second probe, of an address Ryanair answers through.
C34_Witness ==
    \E c \in Callers :
        /\ call[c].pc = "probe"
        /\ call[c].size = 2
        /\ call[c].probes = 2
        /\ Len(proxy_store) = 1
        /\ call[c].proxy \in reachable


\* C35: an acquirer whose address was removed by another caller while its
\* probe was in flight ends that probe without an error (the eviction of an
\* address already removed does nothing), and the address it returns is
\* tracked.
C35_EvictionRaceHarmless ==
    [][\A c \in Threads :
         (call[c].pc = "probe" /\ call'[c].pc # "probe") =>
             /\ call'[c].error = "none"
             /\ call'[c].result # 0 => call'[c].result \in Tracked(proxy_store')]_vars


\* C36: the reservation_complete message is sent only when every batch of the
\* round was reserved; after a batch has failed all its attempts the round
\* never reports the reservation as complete.
C36_CompleteOnlyIfAllReserved ==
    message = "reservation_complete" =>
        \A b \in DOMAIN tasks :
            /\ tasks[b].state = "Reserved"
            /\ tasks[b].error = "none"

\* A round of two batches reported complete, one of them reserved on its last
\* attempt.
C36_Witness ==
    /\ message = "reservation_complete"
    /\ Len(tasks) = 2
    /\ \E b \in DOMAIN tasks : tasks[b].attempt = max_attempts


\* C37: reserve_seats clicks a seat only on the flight's seat map and only
\* when every requested seat is among the available ones; a call that raised
\* SeatSelectionError, FlightNotFoundError or FlightSoldOutError has clicked
\* none.
C37_AllOrNothing ==
    (input.function = "reserve_seats" /\ output.state # "called") =>
        /\ output.selected # <<>> =>
              /\ input.page = "flight"
              /\ Range(input.seats) \subseteq Range(input.seatmap)
        /\ output.error \in {"SeatSelectionError", "FlightNotFoundError",
                             "FlightSoldOutError"} => output.selected = <<>>

\* SeatSelectionError for a batch of which one seat is available and another
\* is not.
C37_Witness ==
    /\ input.function = "reserve_seats"
    /\ output.state = "raised"
    /\ output.error = "SeatSelectionError"
    /\ Range(input.seats) \cap Range(input.seatmap) # {}
    /\ output.selected = <<>>


\* The seats selected so far in the chat.
SelectedSeats == GetKey(user_data, "selected_seats", <<>>)

\* s is sorted and holds no seat twice.
StrictlySorted(s) == \A i, j \in DOMAIN s : i < j => s[i] < s[j]

ValidAirport(text) == IsAlpha3(Upper(text)) /\ Upper(text) \in Airports

\* C39: a rejected input leaves the chat in the state that asked for it and
\* user_data as it was: an invalid origin in ORIGIN, an invalid destination
\* (wrong format or unknown code) in DESTINATION, an invalid time in TIME; the
\* chat is in seat selection only with an origin, a destination and a time
\* stored.
C39_RejectedInputStays ==
    [][/\ \A text \in AirportTexts :
            (~ValidAirport(text) /\ get_flight_origin(text)) =>
                conv_state' = "ORIGIN" /\ user_data' = user_data
       /\ \A text \in AirportTexts :
            (~ValidAirport(text) /\ get_flight_destination(text)) =>
                conv_state' = "DESTINATION" /\ user_data' = user_data
       /\ \A text \in TimeTexts, outcome \in LookupOutcomes, seats \in SeatsShown :
            (FormatTime(text) = "ValueError" /\ get_flight_time(text, outcome, seats)) =>
                conv_state' = "TIME" /\ user_data' = user_data
       /\ conv_state' = "SEATS_SELECTION" =>
            {"origin", "destination", "time"} \subseteq DOMAIN user_data']_vars

============================================================================
